---- MODULE Spec2Model ----
(***************************************************************************)
(* Model of the level-99 trivia game core: the per-community Game state    *)
(* machine (src/src/game/mod.rs), the quiz step machine                    *)
(* (src/src/game/quizz.rs) and the Pool of games (src/src/game/pool.rs).   *)
(*                                                                         *)
(* Spec      one Game, its commands executed one at a time (each command   *)
(*           takes &mut self, so it runs under the Game's mutex).          *)
(* HistSpec  the same commands, with the first team each player was on    *)
(*           during the quiz in progress recorded as history.              *)
(* LiveSpec  the life of one quiz under the periodic tick, with fairness.   *)
(* NoticeSpec the commands of Spec, with the last pause notification and   *)
(*           the repetition of a join_team recorded as history.            *)
(* PoolSpec  the Pool with concurrent command handlers and the ticker,     *)
(*           with the pool map lock and the per-Game mutex made explicit.  *)
(* LockSpec  PoolSpec with the queue of the pool map lock and the locks    *)
(*           inside a Game (teams, output sink) made explicit;             *)
(*           FairLockSpec adds the fairness of the threads and the locks.  *)
(***************************************************************************)
EXTENDS Integers, Sequences, FiniteSets, TLC

\* ------------------------------------------------------------------ bounds
NumPlayers == 2          \* players (UserId) that issue commands
MaxScore == 1            \* scores are kept within -MaxScore..MaxScore
MaxDt == 2               \* largest dt handed to one tick
MaxQuestions == 1        \* questions in the largest quiz definition
NumHandlers == 2         \* command handler threads, one chat event each
NumGuilds == 1           \* communities (GuildId)

\* Settings::default().cooldown_duration, read at quizz.rs:55
CooldownDuration == 3

Players == 1..NumPlayers
Deltas == {-1, 1}
Dts == 0..MaxDt

\* ----------------------------------------------------------- team names
\* the raw strings a player can type as a team name
RawNames == {<<" ">>, <<"a">>, <<"A", " ">>, <<" ", "B">>}

to_lowercase(c) == IF c = "A" THEN "a" ELSE IF c = "B" THEN "b" ELSE c

RECURSIVE trim_start(_)
trim_start(s) ==
    IF s = <<>> THEN s
    ELSE IF Head(s) = " " THEN trim_start(Tail(s)) ELSE s

RECURSIVE trim_end(_)
trim_end(s) ==
    IF s = <<>> THEN s
    ELSE IF s[Len(s)] = " " THEN trim_end(SubSeq(s, 1, Len(s) - 1)) ELSE s

\* team::sanitize_name: trims, case-normalizes, rejects an empty name
sanitize_name(team_name) ==
    LET trimmed == trim_end(trim_start(team_name))
        lowered == [i \in 1..Len(trimmed) |-> to_lowercase(trimmed[i])]
    IN IF trimmed = <<>>
       THEN [ok |-> FALSE, name |-> <<>>]
       ELSE [ok |-> TRUE, name |-> lowered]

\* Option<TeamId>::None; no sanitized name is empty
NoTeam == <<>>

\* TeamId::TeamName(name) for every name sanitize_name can return
TeamIds == {sanitize_name(n).name : n \in {r \in RawNames : sanitize_name(r).ok}}

\* Team::new(team_id)
NewTeam(team_id) == [id |-> team_id, players |-> {}, score |-> 0]

\* -------------------------------------------------------- team registry
\* index of the first team satisfying the test, 0 when there is none
\* (Iterator::position / Iterator::find over the Vec<Team>)
FirstIndex(teams, Test(_)) ==
    LET hits == {i \in 1..Len(teams) : Test(teams[i])}
    IN IF hits = {} THEN 0 ELSE CHOOSE i \in hits : \A j \in hits : i <= j

get_player_team(teams, player) ==
    LET index == FirstIndex(teams, LAMBDA t : player \in t.players)
    IN IF index = 0 THEN NoTeam ELSE teams[index].id

\* a removal that drops the removed element and every element after it
swap_remove_Truncating(teams, index) == SubSeq(teams, 1, index - 1)

\* Vec::swap_remove: the last element takes the removed element's place
swap_remove(teams, index) ==
    LET n == Len(teams)
    IN [i \in 1..(n - 1) |-> IF i = index THEN teams[n] ELSE teams[i]]

\* the teams a player is a member of
TeamsOf(teams, player) == {i \in 1..Len(teams) : player \in teams[i].players}

ScoresInBounds(teams) ==
    \A i \in 1..Len(teams) : teams[i].score >= -MaxScore /\ teams[i].score <= MaxScore

\* ---------------------------------------------------------- output sink
\* a notification said to all teams:
\* OutputPipe::say(&Recipient::AllTeams, ..)
Payload(kind) ==
    [kind |-> kind, team |-> NoTeam, score |-> 0, recipient |-> "AllTeams"]

\* a Payload::Text pushed to the pipe, which names no recipient
PayloadText(kind) == [Payload(kind) EXCEPT !.recipient = "Pipe"]

\* ----------------------------------------------------------- quiz engine
\* CooldownStep::new
CooldownStepNew(duration) ==
    [tag |-> "Cooldown", time_elapsed |-> 0, time_to_wait |-> duration]

\* the steps that carry no data
PlainStep(tag) == [tag |-> tag, time_elapsed |-> 0, time_to_wait |-> 0]

\* CooldownStep::tick
CooldownStepTick(step, dt) == [step EXCEPT !.time_elapsed = @ + dt]

\* a cooldown that is over only once the time waited is exceeded
CooldownStepIsOver_Strict(step) == step.time_elapsed > step.time_to_wait

\* CooldownStep::is_over
CooldownStepIsOver(step) == step.time_elapsed >= step.time_to_wait

\* the quiz definition sources: path -1 is missing or malformed, path k >= 0
\* holds a definition of k questions
QuizPaths == -1..MaxQuestions

\* QuizDefinition::open
QuizDefinitionOpen(quiz_path) ==
    IF quiz_path < 0
    THEN [ok |-> FALSE, questions |-> <<>>]
    ELSE [ok |-> TRUE, questions |-> [i \in 1..quiz_path |-> i]]

\* Quizz::new: every question of the definition remains, the quiz starts in
\* Cooldown with the configured duration
QuizNew(definition) ==
    [remaining_questions |-> definition.questions,
     current_step |-> CooldownStepNew(CooldownDuration),
     answered |-> {}]

\* Quizz::tick: the result is the quiz and the payloads pushed to the pipe
QuizTick(quiz, dt) ==
    IF quiz.current_step.tag = "Cooldown"
    THEN LET cooldown_state == CooldownStepTick(quiz.current_step, dt)
         IN IF CooldownStepIsOver(cooldown_state)
            THEN [quiz |-> [quiz EXCEPT !.current_step = PlainStep("Question")],
                  out |-> <<PayloadText("question")>>]
            ELSE [quiz |-> [quiz EXCEPT !.current_step = cooldown_state],
                  out |-> <<>>]
    ELSE [quiz |-> quiz, out |-> <<>>]

\* Quiz::is_over: the queue is empty and the last question's Results step
\* is reached
QuizIsOver(quiz) ==
    quiz.remaining_questions = <<>> /\ quiz.current_step.tag = "Results"

\* Quiz::skip_phase: forces the next scheduled step regardless of elapsed
\* time; leaving Cooldown pops one question
QuizSkipPhase(quiz) ==
    CASE quiz.current_step.tag = "Cooldown" ->
            IF quiz.remaining_questions = <<>>
            THEN [quiz EXCEPT !.current_step = PlainStep("Results")]
            ELSE [quiz EXCEPT !.current_step = PlainStep("Question"),
                              !.remaining_questions = Tail(@),
                              !.answered = {}]
      [] quiz.current_step.tag = "Question" ->
            [quiz EXCEPT !.current_step = PlainStep("Results")]
      [] OTHER ->
            IF quiz.remaining_questions = <<>>
            THEN quiz
            ELSE [quiz EXCEPT !.current_step = CooldownStepNew(CooldownDuration)]

\* Quiz::guess: accepted only in the Question step; the first correct guess
\* of a team for the question scores once
QuizGuess(quiz, teams, team_id, correct) ==
    IF quiz.current_step.tag # "Question"
    THEN [quiz |-> quiz, teams |-> teams, out |-> <<>>, res |-> "WrongPhase"]
    ELSE IF correct /\ team_id \notin quiz.answered
    THEN LET index == FirstIndex(teams, LAMBDA t : t.id = team_id)
         IN [quiz |-> [quiz EXCEPT !.answered = @ \cup {team_id}],
             teams |-> [teams EXCEPT ![index].score = @ + 1],
             out |-> <<[Payload("correct") EXCEPT
                          !.team = team_id, !.score = teams[index].score + 1]>>,
             res |-> "Ok"]
    ELSE [quiz |-> quiz, teams |-> teams, out |-> <<>>, res |-> "Ok"]

\* ------------------------------------------------------------------ Game
SetupPhase == [tag |-> "Setup"]
QuizPhase(quiz) == [tag |-> "Quiz", quiz |-> quiz]

\* Game::new: Startup is replaced by Setup before the Game is handed out
GameNew ==
    [current_phase |-> SetupPhase, teams |-> <<>>, paused |-> FALSE]

\* what a command hands back: the Game after it, the notifications it sent
\* and its return value
Ret(game, out, res) == [game |-> game, out |-> out, res |-> res]

\* a tick that does not look at the paused flag
GameTick_IgnoresPause(g, dt) ==
    IF g.current_phase.tag = "Quiz"
    THEN LET t == QuizTick(g.current_phase.quiz, dt)
         IN IF QuizIsOver(t.quiz)
            THEN Ret([g EXCEPT !.current_phase = SetupPhase], t.out, "Ok")
            ELSE Ret([g EXCEPT !.current_phase = QuizPhase(t.quiz)], t.out, "Ok")
    ELSE Ret(g, <<>>, "Ok")

\* Game::tick
GameTick(g, dt) ==
    IF g.paused
    THEN Ret(g, <<>>, "Ok")
    ELSE IF g.current_phase.tag = "Quiz"
    THEN LET t == QuizTick(g.current_phase.quiz, dt)
         IN IF QuizIsOver(t.quiz)
            THEN Ret([g EXCEPT !.current_phase = SetupPhase], t.out, "Ok")
            ELSE Ret([g EXCEPT !.current_phase = QuizPhase(t.quiz)], t.out, "Ok")
    ELSE Ret(g, <<>>, "Ok")

\* a begin that starts a quiz in whatever phase the Game is in
GameBegin_AnyPhase(g, quiz_path) ==
    LET definition == QuizDefinitionOpen(quiz_path)
    IN IF ~definition.ok
       THEN Ret(g, <<>>, "LoadError")
       ELSE Ret([g EXCEPT !.current_phase = QuizPhase(QuizNew(definition))],
                <<>>, "Ok")

\* a begin that enters the Quiz phase before it opens the definition
GameBegin_PhaseFirst(g, quiz_path) ==
    IF g.current_phase.tag = "Setup"
    THEN LET definition == QuizDefinitionOpen(quiz_path)
             started == [g EXCEPT !.current_phase = QuizPhase(QuizNew(definition))]
         IN IF ~definition.ok
            THEN Ret(started, <<>>, "LoadError")
            ELSE Ret(started, <<>>, "Ok")
    ELSE Ret(g, <<>>, "WrongPhase")

\* Game::begin
GameBegin(g, quiz_path) ==
    IF g.current_phase.tag = "Setup"
    THEN LET definition == QuizDefinitionOpen(quiz_path)
         IN IF ~definition.ok
            THEN Ret(g, <<>>, "LoadError")
            ELSE Ret([g EXCEPT !.current_phase = QuizPhase(QuizNew(definition))],
                     <<>>, "Ok")
    ELSE Ret(g, <<>>, "WrongPhase")

\* Game::skip
GameSkip(g) ==
    IF g.current_phase.tag = "Quiz"
    THEN Ret([g EXCEPT !.current_phase = QuizPhase(QuizSkipPhase(g.current_phase.quiz))],
             <<>>, "Ok")
    ELSE Ret(g, <<>>, "NoQuizInProgress")

\* a guess that looks at the phase before it looks for the player's team
GameGuess_PhaseFirst(g, player, correct) ==
    LET team_id == get_player_team(g.teams, player)
    IN IF g.current_phase.tag # "Quiz"
       THEN Ret(g, <<>>, "WrongPhase")
       ELSE IF team_id = NoTeam
       THEN Ret(g, <<>>, "NotOnTeam")
       ELSE LET r == QuizGuess(g.current_phase.quiz, g.teams, team_id, correct)
            IN Ret([g EXCEPT !.current_phase = QuizPhase(r.quiz), !.teams = r.teams],
                   r.out, r.res)

\* Game::guess
GameGuess(g, player, correct) ==
    LET team_id == get_player_team(g.teams, player)
    IN IF team_id = NoTeam
       THEN Ret(g, <<>>, "NotOnTeam")
       ELSE IF g.current_phase.tag = "Quiz"
       THEN LET r == QuizGuess(g.current_phase.quiz, g.teams, team_id, correct)
            IN Ret([g EXCEPT !.current_phase = QuizPhase(r.quiz), !.teams = r.teams],
                   r.out, r.res)
       ELSE Ret(g, <<>>, "WrongPhase")

\* Game::disband_team
GameDisbandTeam(g, team_name) ==
    LET s == sanitize_name(team_name)
    IN IF ~s.ok
       THEN Ret(g, <<>>, "InvalidName")
       ELSE LET index == FirstIndex(g.teams, LAMBDA t : t.id = s.name)
            IN IF index = 0
               THEN Ret(g, <<>>, "NotFound")
               ELSE Ret([g EXCEPT !.teams = swap_remove(g.teams, index)], <<>>, "Ok")

\* a join_team that lets every player through
JoinTeamLocked_Never(g, player) == FALSE

\* a join_team that locks the teams in Setup instead of during a quiz
JoinTeamLocked_Inverted(g, player) ==
    LET is_setup_phase == g.current_phase.tag = "Setup"
        is_player_on_team == get_player_team(g.teams, player) # NoTeam
    IN is_player_on_team /\ is_setup_phase

\* Game::join_team, the phase guard: a player on a team may not join a team
\* outside of Setup
JoinTeamLocked(g, player) ==
    LET is_setup_phase == g.current_phase.tag = "Setup"
        is_player_on_team == get_player_team(g.teams, player) # NoTeam
    IN is_player_on_team /\ ~is_setup_phase

\* a join_team that leaves the player on the teams they were on
RemovePlayer_Skipped(teams, player) == teams

\* Game::join_team, "Remove player from existing team"
RemovePlayer(teams, player) ==
    [i \in 1..Len(teams) |-> [teams[i] EXCEPT !.players = @ \ {player}]]

\* a join_team that does not insert a player who was on the team already
GameJoinTeam_SkipsMember(g, player, team_name) ==
    IF JoinTeamLocked(g, player)
       THEN Ret(g, <<>>, "TeamLocked")
       ELSE LET removed == RemovePlayer(g.teams, player)
                s == sanitize_name(team_name)
            IN IF ~s.ok
               THEN Ret([g EXCEPT !.teams = removed], <<>>, "InvalidName")
               ELSE LET found == FirstIndex(removed, LAMBDA t : t.id = s.name)
                        pushed == IF found = 0
                                  THEN Append(removed, NewTeam(s.name))
                                  ELSE removed
                        index == IF found = 0 THEN Len(pushed) ELSE found
                        inserted == IF get_player_team(g.teams, player) = s.name
                                    THEN pushed
                                    ELSE [pushed EXCEPT ![index].players = @ \cup {player}]
                        retained == SelectSeq(inserted, LAMBDA t : t.players # {})
                    IN Ret([g EXCEPT !.teams = retained], <<>>, "Ok")

\* Game::join_team
GameJoinTeam(g, player, team_name) ==
    IF JoinTeamLocked(g, player)
       THEN Ret(g, <<>>, "TeamLocked")
       ELSE LET removed == RemovePlayer(g.teams, player)
                s == sanitize_name(team_name)
            IN IF ~s.ok
               THEN Ret([g EXCEPT !.teams = removed], <<>>, "InvalidName")
               ELSE LET \* Put player on his desired team
                        found == FirstIndex(removed, LAMBDA t : t.id = s.name)
                        pushed == IF found = 0
                                  THEN Append(removed, NewTeam(s.name))
                                  ELSE removed
                        index == IF found = 0 THEN Len(pushed) ELSE found
                        inserted == [pushed EXCEPT ![index].players = @ \cup {player}]
                        \* Remove empty teams
                        retained == SelectSeq(inserted, LAMBDA t : t.players # {})
                    IN Ret([g EXCEPT !.teams = retained], <<>>, "Ok")

\* an adjust_score that announces the score of a team it did not find
GameAdjustScore_Announces(g, team_id, delta) ==
    LET index == FirstIndex(g.teams, LAMBDA t : t.id = team_id)
    IN IF index = 0
       THEN Ret(g, <<[Payload("score") EXCEPT !.team = team_id, !.score = delta]>>,
                "NotFound")
       ELSE LET score == g.teams[index].score + delta
            IN Ret([g EXCEPT !.teams[index].score = score],
                   <<[Payload("score") EXCEPT !.team = team_id, !.score = score]>>,
                   "Ok")

\* Game::adjust_score
GameAdjustScore(g, team_id, delta) ==
    LET index == FirstIndex(g.teams, LAMBDA t : t.id = team_id)
    IN IF index = 0
       THEN Ret(g, <<>>, "NotFound")
       ELSE LET score == g.teams[index].score + delta
            IN Ret([g EXCEPT !.teams[index].score = score],
                   <<[Payload("score") EXCEPT !.team = team_id, !.score = score]>>,
                   "Ok")

\* Game::reset_teams
GameResetTeams(g) ==
    Ret([g EXCEPT !.teams = <<>>], <<Payload("teams_reset")>>, "Ok")

\* a reset_scores that tells nobody
GameResetScores_Silent(g) ==
    Ret([g EXCEPT !.teams = [i \in 1..Len(g.teams) |-> [g.teams[i] EXCEPT !.score = 0]]],
        <<>>, "Ok")

\* Game::reset_scores
GameResetScores(g) ==
    Ret([g EXCEPT !.teams = [i \in 1..Len(g.teams) |-> [g.teams[i] EXCEPT !.score = 0]]],
        <<Payload("scores_reset")>>, "Ok")

\* Game::pause
GamePause(g) ==
    IF ~g.paused
    THEN Ret([g EXCEPT !.paused = TRUE], <<Payload("paused")>>, "Ok")
    ELSE Ret(g, <<>>, "Ok")

\* an unpause that resumes and notifies whatever the flag
GameUnpause_Always(g) ==
    Ret([g EXCEPT !.paused = FALSE], <<Payload("resumed")>>, "Ok")

\* Game::unpause
GameUnpause(g) ==
    IF g.paused
    THEN Ret([g EXCEPT !.paused = FALSE], <<Payload("resumed")>>, "Ok")
    ELSE Ret(g, <<>>, "Ok")

\* ------------------------------------------------- one Game, its commands
VARIABLES
    game,          \* the Game: current_phase, teams, paused
    output_pipe,   \* the notifications the last command sent to the sink
    call,          \* the last command and its arguments
    result,        \* what the last command returned
    quiz_team,     \* history: the first team each player was a member of
                   \* during the quiz in progress
    last_notice,   \* history: the kind of the last pause notification sent
                   \* to the sink ("paused", "resumed"), "none" before any
    join_repeated  \* history: the last command was a join_team in Setup that
                   \* repeated the successful join_team right before it

gameVars == <<game, output_pipe, call, result>>

\* ---------------------------------------------------------------- the Pool
VARIABLES
    games,         \* Pool.games: GuildId -> index of its Game, 0 when absent
    instances,     \* every Game constructed so far (the Arc<Mutex<Game>>s)
    mutex,         \* per Game: the thread holding its Mutex, NoThread when free
    map_readers,   \* the threads holding a read lock on Pool.games
    pc,            \* per thread: where it is in get_game / the command / tick;
                   \* a handler is "done" once its event is handled
    guild,         \* per handler: the guild it resolved its channel to
    game_exists,   \* per handler: get_game's local game_exists
    handle,        \* per thread: the Game it was handed (0: none)
    tick_todo,     \* the ticker's iteration: the guilds not yet ticked
    tick_dt        \* the dt of the Pool::tick call in progress

poolVars == <<games, instances, mutex, map_readers, pc, guild, game_exists,
              handle, tick_todo, tick_dt>>

vars == <<game, output_pipe, call, result, quiz_team, last_notice, join_repeated, poolVars>>

\* the commands that name no player carry player 0, those that name no team
\* carry the empty name
NoPlayer == 0
NoName == <<>>
Call(op, player, team_name, arg) ==
    [op |-> op, player |-> player, name |-> team_name, arg |-> arg]

\* the Game takes the outcome r of command c
Apply(c, r) ==
    /\ ScoresInBounds(r.game.teams)
    /\ game' = r.game
    /\ output_pipe' = r.out
    /\ call' = c
    /\ result' = r.res

\* the Game takes the outcome r of a command; the command is not logged
ApplyQuiet(c, r) ==
    /\ ScoresInBounds(r.game.teams)
    /\ game' = r.game
    /\ UNCHANGED <<output_pipe, call, result>>

\* the commands; Do is what is done with the command and its outcome
TickCmd(Do(_, _)) == \E dt \in Dts :
    Do(Call("tick", NoPlayer, NoName, dt), GameTick(game, dt))

BeginCmd(Do(_, _)) == \E quiz_path \in QuizPaths :
    Do(Call("begin", NoPlayer, NoName, quiz_path), GameBegin(game, quiz_path))

SkipCmd(Do(_, _)) == Do(Call("skip", NoPlayer, NoName, 0), GameSkip(game))

GuessCmd(Do(_, _)) == \E player \in Players, correct \in BOOLEAN :
    Do(Call("guess", player, NoName, 0), GameGuess(game, player, correct))

DisbandTeamCmd(Do(_, _)) == \E team_name \in RawNames :
    Do(Call("disband_team", NoPlayer, team_name, 0), GameDisbandTeam(game, team_name))

JoinTeamCmd(Do(_, _)) == \E player \in Players, team_name \in RawNames :
    Do(Call("join_team", player, team_name, 0), GameJoinTeam(game, player, team_name))

AdjustScoreCmd(Do(_, _)) == \E team_id \in TeamIds, delta \in Deltas :
    Do(Call("adjust_score", NoPlayer, team_id, delta), GameAdjustScore(game, team_id, delta))

ResetTeamsCmd(Do(_, _)) == Do(Call("reset_teams", NoPlayer, NoName, 0), GameResetTeams(game))

ResetScoresCmd(Do(_, _)) == Do(Call("reset_scores", NoPlayer, NoName, 0), GameResetScores(game))

PauseCmd(Do(_, _)) == Do(Call("pause", NoPlayer, NoName, 0), GamePause(game))

UnpauseCmd(Do(_, _)) == Do(Call("unpause", NoPlayer, NoName, 0), GameUnpause(game))

InQuiz(g) == g.current_phase.tag = "Quiz"
InSetup(g) == g.current_phase.tag = "Setup"

\* ---- Spec: the commands of one Game
Untracked == UNCHANGED <<quiz_team, last_notice, join_repeated, poolVars>>

Tick == TickCmd(Apply) /\ Untracked
Begin == BeginCmd(Apply) /\ Untracked
Skip == SkipCmd(Apply) /\ Untracked
Guess == GuessCmd(Apply) /\ Untracked
DisbandTeam == DisbandTeamCmd(Apply) /\ Untracked
JoinTeam == JoinTeamCmd(Apply) /\ Untracked
AdjustScore == AdjustScoreCmd(Apply) /\ Untracked
ResetTeams == ResetTeamsCmd(Apply) /\ Untracked
ResetScores == ResetScoresCmd(Apply) /\ Untracked
Pause == PauseCmd(Apply) /\ Untracked
Unpause == UnpauseCmd(Apply) /\ Untracked

\* ---- the Pool's threads
NoThread == 0
Ticker == NumHandlers + 1
Handlers == 1..NumHandlers
Threads == 1..(NumHandlers + 1)
Guilds == 1..NumGuilds

Init ==
    /\ game = GameNew
    /\ output_pipe = <<>>
    /\ call = Call("new", NoPlayer, NoName, 0)
    /\ result = "Ok"
    /\ quiz_team = [p \in Players |-> NoTeam]
    /\ last_notice = "none"
    /\ join_repeated = FALSE
    /\ games = [g \in Guilds |-> 0]
    /\ instances = <<>>
    /\ mutex = <<>>
    /\ map_readers = {}
    /\ pc = [t \in Threads |-> "idle"]
    /\ guild = [t \in Handlers |-> 0]
    /\ game_exists = [t \in Handlers |-> FALSE]
    /\ handle = [t \in Threads |-> 0]
    /\ tick_todo = {}
    /\ tick_dt = 0

Next ==
    \/ Tick
    \/ Begin
    \/ Skip
    \/ Guess
    \/ DisbandTeam
    \/ JoinTeam
    \/ AdjustScore
    \/ ResetTeams
    \/ ResetScores
    \/ Pause
    \/ Unpause

Spec == Init /\ [][Next]_vars

\* ---- LiveSpec: the life of a quiz under the clock. The ticker calls
\* Pool::tick periodically, so a tick with a positive dt that finds the Game
\* unpaused happens again and again whenever the Game is unpaused again and
\* again, and a paused Game is unpaused in the end.
EffectiveTick ==
    /\ ~game.paused
    /\ \E dt \in Dts \ {0} :
          Apply(Call("tick", NoPlayer, NoName, dt), GameTick(game, dt))
    /\ Untracked

LiveNext ==
    \/ Tick
    \/ Begin
    \/ Pause
    \/ Unpause

LiveSpec ==
    /\ Init
    /\ [][LiveNext]_vars
    /\ WF_vars(Unpause)
    /\ SF_vars(EffectiveTick)

\* ---- NoticeSpec: the same commands, recording the last pause notification
\* and whether a join_team was repeated
Range(s) == {s[i] : i \in 1..Len(s)}

NextNotice(prev, out) ==
    IF Payload("resumed") \in Range(out) THEN "resumed"
    ELSE IF Payload("paused") \in Range(out) THEN "paused"
    ELSE prev

\* command c comes right after the same join_team, which succeeded in Setup
RepeatsJoin(c) ==
    /\ c.op = "join_team"
    /\ call.op = "join_team"
    /\ result = "Ok"
    /\ InSetup(game)
    /\ c.player = call.player
    /\ c.name = call.name

ApplyNoted(c, r) ==
    /\ Apply(c, r)
    /\ last_notice' = NextNotice(last_notice, r.out)
    /\ join_repeated' = RepeatsJoin(c)

Unnoted == UNCHANGED <<quiz_team, poolVars>>

NotedTick == TickCmd(ApplyNoted) /\ Unnoted
NotedBegin == BeginCmd(ApplyNoted) /\ Unnoted
NotedSkip == SkipCmd(ApplyNoted) /\ Unnoted
NotedGuess == GuessCmd(ApplyNoted) /\ Unnoted
NotedDisbandTeam == DisbandTeamCmd(ApplyNoted) /\ Unnoted
NotedJoinTeam == JoinTeamCmd(ApplyNoted) /\ Unnoted
NotedAdjustScore == AdjustScoreCmd(ApplyNoted) /\ Unnoted
NotedResetTeams == ResetTeamsCmd(ApplyNoted) /\ Unnoted
NotedResetScores == ResetScoresCmd(ApplyNoted) /\ Unnoted
NotedPause == PauseCmd(ApplyNoted) /\ Unnoted
NotedUnpause == UnpauseCmd(ApplyNoted) /\ Unnoted

NoticeNext ==
    \/ NotedTick
    \/ NotedBegin
    \/ NotedSkip
    \/ NotedGuess
    \/ NotedDisbandTeam
    \/ NotedJoinTeam
    \/ NotedAdjustScore
    \/ NotedResetTeams
    \/ NotedResetScores
    \/ NotedPause
    \/ NotedUnpause

NoticeSpec == Init /\ [][NoticeNext]_vars

\* ---- HistSpec: the same commands, recording each player's first team of
\* the quiz in progress
TeamOf(g, player) == get_player_team(g.teams, player)

Track ==
    /\ quiz_team' = [p \in Players |->
          IF game'.current_phase.tag # "Quiz" THEN NoTeam
          ELSE IF game.current_phase.tag # "Quiz" THEN TeamOf(game', p)
          ELSE IF quiz_team[p] # NoTeam THEN quiz_team[p]
          ELSE TeamOf(game', p)]
    /\ UNCHANGED <<last_notice, join_repeated, poolVars>>

TrackedTick == TickCmd(ApplyQuiet) /\ Track
TrackedBegin == BeginCmd(ApplyQuiet) /\ Track
TrackedSkip == SkipCmd(ApplyQuiet) /\ Track
TrackedGuess == GuessCmd(ApplyQuiet) /\ Track
TrackedDisbandTeam == DisbandTeamCmd(ApplyQuiet) /\ Track
TrackedJoinTeam == JoinTeamCmd(ApplyQuiet) /\ Track
TrackedAdjustScore == AdjustScoreCmd(ApplyQuiet) /\ Track
TrackedResetTeams == ResetTeamsCmd(ApplyQuiet) /\ Track
TrackedResetScores == ResetScoresCmd(ApplyQuiet) /\ Track
TrackedPause == PauseCmd(ApplyQuiet) /\ Track
TrackedUnpause == UnpauseCmd(ApplyQuiet) /\ Track

HistNext ==
    \/ TrackedTick
    \/ TrackedBegin
    \/ TrackedSkip
    \/ TrackedGuess
    \/ TrackedDisbandTeam
    \/ TrackedJoinTeam
    \/ TrackedAdjustScore
    \/ TrackedResetTeams
    \/ TrackedResetScores
    \/ TrackedPause
    \/ TrackedUnpause

HistSpec == Init /\ [][HistNext]_vars

\* ---- PoolSpec: command handlers and the ticker on the shared Pool
\* channel 0 is in no guild of the cache, channel g > 0 is a channel of guild g
Channels == 0..NumGuilds

\* a Mutex::lock that does not wait for the holder
MutexFree_Always(i) == TRUE

\* Mutex::lock returns only when no thread holds the Game's mutex
MutexFree(i) == mutex[i] = NoThread

\* a Game whose last Arc was dropped: it is in the map no more and no thread
\* holds a handle to it
DroppedGame == [current_phase |-> [tag |-> "Dropped"], teams |-> <<>>, paused |-> FALSE]

\* the Games after the Arcs of map m and handles h are accounted for
Live(insts, m, h) ==
    [i \in 1..Len(insts) |->
        IF (\E g \in DOMAIN m : m[g] = i) \/ (\E t \in DOMAIN h : h[t] = i)
        THEN insts[i]
        ELSE DroppedGame]

\* the commands the handlers issue on the Game they were handed
PoolCommand(g, c) ==
    CASE c = "begin" -> GameBegin(g, MaxQuestions)
      [] c = "pause" -> GamePause(g)
      [] c = "unpause" -> GameUnpause(g)
      [] c = "skip" -> GameSkip(g)

PoolCommands == {"begin", "pause", "unpause", "skip"}

PoolStep == UNCHANGED <<game, output_pipe, call, result, quiz_team, last_notice, join_repeated>>

\* parking_lot's RwLock admits no new reader while a writer waits for it
ReadAdmitted == \A u \in Handlers : pc[u] # "write_wait"

\* Pool::get_game, lines 21-32: resolve the guild ("Server not found" when
\* the channel is unknown), then read game_exists under the read lock
GetGameCheck(t) ==
    /\ pc[t] = "idle"
    /\ \E channel \in Channels :
          IF channel = 0
          THEN /\ pc' = [pc EXCEPT ![t] = "done"]
               /\ UNCHANGED <<guild, game_exists>>
          ELSE /\ ReadAdmitted
               /\ guild' = [guild EXCEPT ![t] = channel]
               /\ game_exists' = [game_exists EXCEPT ![t] = games[channel] # 0]
               /\ pc' = [pc EXCEPT ![t] = IF games[channel] # 0 THEN "lookup" ELSE "insert"]
    /\ UNCHANGED <<games, instances, mutex, map_readers, handle, tick_todo, tick_dt>>
    /\ PoolStep

\* Pool::get_game, lines 33-44: under the write lock, insert a new Game
GetGameInsert(t) ==
    /\ pc[t] \in {"insert", "write_wait"}
    /\ map_readers = {}
    /\ games' = [games EXCEPT ![guild[t]] = Len(instances) + 1]
    /\ instances' = Live(Append(instances, GameNew), games', handle)
    /\ mutex' = Append(mutex, NoThread)
    /\ pc' = [pc EXCEPT ![t] = "lookup"]
    /\ UNCHANGED <<map_readers, guild, game_exists, handle, tick_todo, tick_dt>>
    /\ PoolStep

\* Pool::get_game, lines 45-46: under the read lock, clone the Arc in the map
GetGameLookup(t) ==
    /\ pc[t] = "lookup"
    /\ ReadAdmitted
    /\ handle' = [handle EXCEPT ![t] = games[guild[t]]]
    /\ pc' = [pc EXCEPT ![t] = "have"]
    /\ UNCHANGED <<games, instances, mutex, map_readers, guild, game_exists,
                   tick_todo, tick_dt>>
    /\ PoolStep

\* the handler locks the Game it was handed
HandlerLock(t) ==
    /\ pc[t] = "have"
    /\ MutexFree(handle[t])
    /\ mutex' = [mutex EXCEPT ![handle[t]] = t]
    /\ pc' = [pc EXCEPT ![t] = "locked"]
    /\ UNCHANGED <<games, instances, map_readers, guild, game_exists, handle,
                   tick_todo, tick_dt>>
    /\ PoolStep

\* the handler runs its command on the locked Game
HandlerCommand(t) ==
    /\ pc[t] = "locked"
    /\ \E c \in PoolCommands :
          instances' = [instances EXCEPT ![handle[t]] = PoolCommand(@, c).game]
    /\ pc' = [pc EXCEPT ![t] = "executed"]
    /\ UNCHANGED <<games, mutex, map_readers, guild, game_exists, handle,
                   tick_todo, tick_dt>>
    /\ PoolStep

\* a handler that returns without dropping the guard of the Game's mutex
HandlerUnlock_KeepsMutex(t) ==
    /\ pc[t] = "executed"
    /\ handle' = [handle EXCEPT ![t] = 0]
    /\ guild' = [guild EXCEPT ![t] = 0]
    /\ game_exists' = [game_exists EXCEPT ![t] = FALSE]
    /\ pc' = [pc EXCEPT ![t] = "done"]
    /\ UNCHANGED <<games, instances, mutex, map_readers, tick_todo, tick_dt>>
    /\ PoolStep

\* the handler drops the guard and its Arc; its event is handled
HandlerUnlock(t) ==
    /\ pc[t] = "executed"
    /\ mutex' = [mutex EXCEPT ![handle[t]] = NoThread]
    /\ handle' = [handle EXCEPT ![t] = 0]
    /\ instances' = Live(instances, games, handle')
    /\ guild' = [guild EXCEPT ![t] = 0]
    /\ game_exists' = [game_exists EXCEPT ![t] = FALSE]
    /\ pc' = [pc EXCEPT ![t] = "done"]
    /\ UNCHANGED <<games, map_readers, tick_todo, tick_dt>>
    /\ PoolStep

\* Pool::tick, line 50: take the read lock and start iterating the map
PoolTickStart ==
    /\ pc[Ticker] = "idle"
    /\ ReadAdmitted
    /\ map_readers' = map_readers \cup {Ticker}
    /\ tick_todo' = {g \in Guilds : games[g] # 0}
    /\ \E dt \in Dts : tick_dt' = dt
    /\ pc' = [pc EXCEPT ![Ticker] = "iter"]
    /\ UNCHANGED <<games, instances, mutex, guild, game_exists, handle>>
    /\ PoolStep

\* Pool::tick, line 52: lock the next Game of the iteration
PoolTickLock ==
    /\ pc[Ticker] = "iter"
    /\ \E g \in tick_todo :
          /\ MutexFree(games[g])
          /\ mutex' = [mutex EXCEPT ![games[g]] = Ticker]
          /\ handle' = [handle EXCEPT ![Ticker] = games[g]]
          /\ tick_todo' = tick_todo \ {g}
    /\ pc' = [pc EXCEPT ![Ticker] = "locked"]
    /\ UNCHANGED <<games, instances, map_readers, guild, game_exists, tick_dt>>
    /\ PoolStep

\* Pool::tick, line 53: game.tick(dt)
PoolTickGame ==
    /\ pc[Ticker] = "locked"
    /\ instances' = [instances EXCEPT ![handle[Ticker]] = GameTick(@, tick_dt).game]
    /\ pc' = [pc EXCEPT ![Ticker] = "executed"]
    /\ UNCHANGED <<games, mutex, map_readers, guild, game_exists, handle,
                   tick_todo, tick_dt>>
    /\ PoolStep

\* Pool::tick, line 54: the guard is dropped at the end of the loop body
PoolTickUnlock ==
    /\ pc[Ticker] = "executed"
    /\ mutex' = [mutex EXCEPT ![handle[Ticker]] = NoThread]
    /\ handle' = [handle EXCEPT ![Ticker] = 0]
    /\ pc' = [pc EXCEPT ![Ticker] = "iter"]
    /\ UNCHANGED <<games, instances, map_readers, guild, game_exists,
                   tick_todo, tick_dt>>
    /\ PoolStep

\* Pool::tick, line 55: the iteration is over, the read lock is released
PoolTickEnd ==
    /\ pc[Ticker] = "iter"
    /\ tick_todo = {}
    /\ map_readers' = map_readers \ {Ticker}
    /\ tick_dt' = 0
    /\ pc' = [pc EXCEPT ![Ticker] = "idle"]
    /\ UNCHANGED <<games, instances, mutex, guild, game_exists, handle,
                   tick_todo>>
    /\ PoolStep

PoolNext ==
    \/ \E t \in Handlers : GetGameCheck(t)
    \/ \E t \in Handlers : GetGameInsert(t)
    \/ \E t \in Handlers : GetGameLookup(t)
    \/ \E t \in Handlers : HandlerLock(t)
    \/ \E t \in Handlers : HandlerCommand(t)
    \/ \E t \in Handlers : HandlerUnlock(t)
    \/ PoolTickStart
    \/ PoolTickLock
    \/ PoolTickGame
    \/ PoolTickUnlock
    \/ PoolTickEnd

PoolSpec == Init /\ [][PoolNext]_vars

\* ---- LockSpec: the Pool with the locks inside a Game and the writer's
\* wait for the pool map
\* the team and the player of the handlers' join_team and adjust_score
PoolTeam == <<"a">>
PoolPlayer == 1

\* the threads holding the teams lock (TeamsHandle) of Game i
TeamsHolders(i) ==
    {t \in Handlers : handle[t] = i /\ pc[t] \in {"teams_held", "scored", "saying"}}

\* the threads holding the output sink lock of Game i, for reading and for
\* writing
SinkReaders(i) == {t \in Handlers : handle[t] = i /\ pc[t] = "saying"}
SinkWriters(i) == {t \in Handlers : handle[t] = i /\ pc[t] = "channels"}

\* a step of handler t that changes its position only
HandlerGoes(t, to) ==
    /\ pc' = [pc EXCEPT ![t] = to]
    /\ UNCHANGED <<games, instances, mutex, map_readers, guild, game_exists,
                   handle, tick_todo, tick_dt>>
    /\ PoolStep

\* Pool::get_game, line 42: self.games.write() is called and has to wait
GetGameRequestWrite(t) ==
    /\ pc[t] = "insert"
    /\ HandlerGoes(t, "write_wait")

\* the handler runs join_team on the locked Game
HandlerJoinTeam(t) ==
    /\ pc[t] = "locked"
    /\ instances' = [instances EXCEPT
          ![handle[t]] = GameJoinTeam(@, PoolPlayer, PoolTeam).game]
    /\ pc' = [pc EXCEPT ![t] = "executed"]
    /\ UNCHANGED <<games, mutex, map_readers, guild, game_exists, handle,
                   tick_todo, tick_dt>>
    /\ PoolStep

\* the handler calls adjust_score on the locked Game
AdjustScoreCall(t) ==
    /\ pc[t] = "locked"
    /\ HandlerGoes(t, "adjust")

\* Game::adjust_score, line 147: self.teams.write()
AdjustScoreLockTeams(t) ==
    /\ pc[t] = "adjust"
    /\ TeamsHolders(handle[t]) = {}
    /\ HandlerGoes(t, "teams_held")

\* Game::adjust_score, lines 148-152: find the team and update its score, or
\* return "Team not found" and drop the teams lock
AdjustScoreUpdate(t) ==
    /\ pc[t] = "teams_held"
    /\ \E delta \in Deltas :
          LET r == GameAdjustScore(instances[handle[t]], PoolTeam, delta)
          IN /\ ScoresInBounds(r.game.teams)
             /\ instances' = [instances EXCEPT ![handle[t]] = r.game]
             /\ pc' = [pc EXCEPT ![t] = IF r.res = "Ok" THEN "scored" ELSE "executed"]
    /\ UNCHANGED <<games, mutex, map_readers, guild, game_exists, handle,
                   tick_todo, tick_dt>>
    /\ PoolStep

\* Game::adjust_score, line 153: self.output_pipe.read(), the teams lock held
AdjustScoreLockSink(t) ==
    /\ pc[t] = "scored"
    /\ SinkWriters(handle[t]) = {}
    /\ HandlerGoes(t, "saying")

\* Game::adjust_score, lines 154-163: say, return, both guards are dropped
AdjustScoreReturn(t) ==
    /\ pc[t] = "saying"
    /\ HandlerGoes(t, "executed")

\* the handler calls update_team_channels on the locked Game
UpdateTeamChannelsCall(t) ==
    /\ pc[t] = "locked"
    /\ HandlerGoes(t, "update_channels")

\* Game::update_team_channels, line 202: self.output_pipe.write()
UpdateTeamChannelsLock(t) ==
    /\ pc[t] = "update_channels"
    /\ SinkReaders(handle[t]) \cup SinkWriters(handle[t]) = {}
    /\ HandlerGoes(t, "channels")

\* Game::update_team_channels, lines 203-204: update, the guard is dropped
UpdateTeamChannelsReturn(t) ==
    /\ pc[t] = "channels"
    /\ HandlerGoes(t, "executed")

\* the steps of handler t that wait for no lock
HandlerRun(t) ==
    \/ GetGameRequestWrite(t)
    \/ HandlerCommand(t)
    \/ HandlerJoinTeam(t)
    \/ AdjustScoreCall(t)
    \/ AdjustScoreUpdate(t)
    \/ AdjustScoreReturn(t)
    \/ UpdateTeamChannelsCall(t)
    \/ UpdateTeamChannelsReturn(t)
    \/ HandlerUnlock(t)

\* the steps of handler t that acquire a lock
HandlerAcquire(t) ==
    \/ GetGameInsert(t)
    \/ GetGameLookup(t)
    \/ HandlerLock(t)
    \/ AdjustScoreLockTeams(t)
    \/ AdjustScoreLockSink(t)
    \/ UpdateTeamChannelsLock(t)

\* the steps of a Pool::tick in progress that wait for no lock
TickerRun ==
    \/ PoolTickGame
    \/ PoolTickUnlock
    \/ PoolTickEnd

LockNext ==
    \/ \E t \in Handlers : GetGameCheck(t)
    \/ \E t \in Handlers : GetGameRequestWrite(t)
    \/ \E t \in Handlers : GetGameInsert(t)
    \/ \E t \in Handlers : GetGameLookup(t)
    \/ \E t \in Handlers : HandlerLock(t)
    \/ \E t \in Handlers : HandlerCommand(t)
    \/ \E t \in Handlers : HandlerJoinTeam(t)
    \/ \E t \in Handlers : AdjustScoreCall(t)
    \/ \E t \in Handlers : AdjustScoreLockTeams(t)
    \/ \E t \in Handlers : AdjustScoreUpdate(t)
    \/ \E t \in Handlers : AdjustScoreLockSink(t)
    \/ \E t \in Handlers : AdjustScoreReturn(t)
    \/ \E t \in Handlers : UpdateTeamChannelsCall(t)
    \/ \E t \in Handlers : UpdateTeamChannelsLock(t)
    \/ \E t \in Handlers : UpdateTeamChannelsReturn(t)
    \/ \E t \in Handlers : HandlerUnlock(t)
    \/ PoolTickStart
    \/ PoolTickLock
    \/ PoolTickGame
    \/ PoolTickUnlock
    \/ PoolTickEnd

LockSpec == Init /\ [][LockNext]_vars

\* every thread that can take a step takes one in the end; the locks are
\* parking_lot's, which hand a lock that is released again and again to
\* every waiter in the end
FairLockSpec ==
    /\ LockSpec
    /\ \A t \in Handlers : WF_vars(HandlerRun(t)) /\ SF_vars(HandlerAcquire(t))
    /\ WF_vars(TickerRun)
    /\ SF_vars(PoolTickLock)

\* ------------------------------------------------------------- properties
\* the threads that are running a command or a tick on Game i
Executing(i) == {t \in Threads : pc[t] \in {"locked", "executed"} /\ handle[t] = i}

\* the handlers that hold a Game handed out by get_game
Holding == {t \in Handlers : pc[t] \in {"have", "locked", "executed"}}

\* C1: concurrent get_game calls for one community all return the same Game.
C1_SameGame ==
    \A t1 \in Holding, t2 \in Holding :
        guild[t1] = guild[t2] => handle[t1] = handle[t2]

\* C2: at most one command or tick is executing against a given Game at any
\* moment, and whoever executes holds the Game's mutex: the tick holds it
\* from before Game::tick until after it.
C2_MutualExclusion ==
    \A i \in 1..Len(instances) :
        /\ Cardinality(Executing(i)) <= 1
        /\ \A t \in Executing(i) : mutex[i] = t

\* the ticker is inside Game::tick on a running quiz while a handler that
\* was handed the same Game waits for its mutex
C2_Witness ==
    /\ pc[Ticker] = "locked"
    /\ InQuiz(instances[handle[Ticker]])
    /\ \E t \in Handlers : pc[t] = "have" /\ handle[t] = handle[Ticker]

HasTeam(teams, team_id) == \E i \in 1..Len(teams) : teams[i].id = team_id

\* C3: in every reachable state of one Game each player is a member of at
\* most one team.
C3_AtMostOneTeam ==
    \A p \in Players : Cardinality(TeamsOf(game.teams, p)) <= 1

\* a join_team that succeeded while another team exists: the caller is on
\* the team they named and on no other
C3_Witness ==
    /\ call.op = "join_team"
    /\ result = "Ok"
    /\ Len(game.teams) >= 2
    /\ TeamOf(game, call.player) = sanitize_name(call.name).name

\* C4: after any command the registry holds no team with zero players.
C4_NoEmptyTeam ==
    \A i \in 1..Len(game.teams) : game.teams[i].players # {}

\* C5: a join_team that returns InvalidName leaves the team registry exactly
\* as it was before the call.
C5_InvalidNameKeepsTeams ==
    [][(call'.op = "join_team" /\ result' = "InvalidName")
          => game'.teams = game.teams]_vars

\* C6: join_team with a valid name succeeds in Setup whether or not the
\* player is on a team; during a quiz it succeeds when the player is on no
\* team, and fails with TeamLocked, the registry unchanged, when the player
\* is on a team.
C6_JoinPhaseGuard ==
    [][call'.op = "join_team" =>
          LET p == call'.player
              valid == sanitize_name(call'.name).ok
              on_team == TeamOf(game, p) # NoTeam
          IN /\ (InSetup(game) /\ valid) => result' = "Ok"
             /\ (InQuiz(game) /\ ~on_team /\ valid) => result' = "Ok"
             /\ (InQuiz(game) /\ on_team) =>
                   (result' = "TeamLocked" /\ game'.teams = game.teams)
             /\ result' = "TeamLocked" => (InQuiz(game) /\ on_team)]_vars

\* a join_team refused with TeamLocked during a quiz
C6_Witness ==
    /\ call.op = "join_team"
    /\ result = "TeamLocked"
    /\ InQuiz(game)
    /\ TeamOf(game, call.player) # NoTeam
    /\ TeamOf(game, call.player) # sanitize_name(call.name).name

\* C7 as stated: during one quiz a player who was a member of a team is
\* never a member of a different team later in that quiz.
C7_NeverOnAnotherTeam ==
    InQuiz(game) =>
        \A p \in Players :
            (quiz_team[p] # NoTeam /\ TeamOf(game, p) # NoTeam)
                => TeamOf(game, p) = quiz_team[p]

\* C7 amended: while the Game stays in the Quiz phase no command moves a
\* player from a team to a different team; a player stops being a member of
\* their team only when that team is removed from the registry (disband_team,
\* reset_teams).
C7_NoDirectSwitch ==
    [][(InQuiz(game) /\ InQuiz(game')) =>
          \A p \in Players :
              TeamOf(game, p) # NoTeam =>
                  \/ TeamOf(game', p) = TeamOf(game, p)
                  \/ /\ TeamOf(game', p) = NoTeam
                     /\ ~HasTeam(game'.teams, TeamOf(game, p))]_vars

\* during a quiz, a player whose team of that quiz was removed is on no team
\* while another player is on a team
C7_Witness ==
    /\ InQuiz(game)
    /\ \E p \in Players : quiz_team[p] # NoTeam /\ TeamOf(game, p) = NoTeam
    /\ \E q \in Players : quiz_team[q] # NoTeam /\ TeamOf(game, q) = quiz_team[q]

\* C8: begin during a quiz returns WrongPhase and leaves the Game, its
\* running quiz included, unchanged.
C8_BeginInQuizRefused ==
    [][(call'.op = "begin" /\ InQuiz(game))
          => (result' = "WrongPhase" /\ game' = game /\ output_pipe' = <<>>)]_vars

\* a begin refused while the quiz had left its initial step
C8_Witness ==
    /\ call.op = "begin"
    /\ result = "WrongPhase"
    /\ InQuiz(game)
    /\ QuizDefinitionOpen(call.arg).ok
    /\ game.current_phase.quiz # QuizNew(QuizDefinitionOpen(call.arg))

\* C9: a begin in Setup whose definition fails to load returns the load
\* error, leaves the Game unchanged and emits nothing; a begin in Setup with
\* a loadable definition (also right after a failed one) succeeds and enters
\* the Quiz phase.
C9_LoadErrorKeepsGame ==
    [][(call'.op = "begin" /\ InSetup(game)) =>
          IF QuizDefinitionOpen(call'.arg).ok
          THEN result' = "Ok" /\ InQuiz(game')
          ELSE /\ result' = "LoadError"
               /\ game' = game
               /\ output_pipe' = <<>>]_vars

\* a begin that failed to load, the Game still in Setup with its teams
C9_Witness ==
    /\ call.op = "begin"
    /\ result = "LoadError"
    /\ InSetup(game)
    /\ game.teams # <<>>
    /\ game.paused

\* C10: a tick on a paused Game changes nothing of the Game (phase, quiz
\* step, accumulated cooldown time, teams) and emits no notification.
C10_PausedTickNoOp ==
    [][(call'.op = "tick" /\ game.paused)
          => (game' = game /\ output_pipe' = <<>>)]_vars

\* a tick with a dt that would end the cooldown, on a paused quiz that is
\* still in Cooldown
C10_Witness ==
    /\ call.op = "tick"
    /\ game.paused
    /\ InQuiz(game)
    /\ game.current_phase.quiz.current_step.tag = "Cooldown"
    /\ game.current_phase.quiz.current_step.time_elapsed + call.arg
          >= game.current_phase.quiz.current_step.time_to_wait

\* C11: a quiz that was started ends: when the Game is not left paused
\* forever and ticks with a positive dt keep arriving, a Game in the Quiz
\* phase eventually returns to Setup.
C11_QuizEnds == InQuiz(game) ~> InSetup(game)

\* C12: pause emits 'paused' only when it turns the flag from unpaused to
\* paused and unpause emits 'resumed' only when it turns it from paused to
\* unpaused; a repeated pause or unpause emits nothing and changes nothing;
\* the 'paused' and 'resumed' notifications alternate, 'paused' first.
C12_PauseNotices ==
    [][/\ Payload("paused") \in Range(output_pipe') =>
             /\ call'.op = "pause"
             /\ ~game.paused /\ game'.paused
             /\ output_pipe' = <<Payload("paused")>>
             /\ last_notice # "paused"
       /\ Payload("resumed") \in Range(output_pipe') =>
             /\ call'.op = "unpause"
             /\ game.paused /\ ~game'.paused
             /\ output_pipe' = <<Payload("resumed")>>
             /\ last_notice = "paused"
       /\ (call'.op = "pause" /\ game.paused) =>
             (game' = game /\ output_pipe' = <<>>)
       /\ (call'.op = "unpause" /\ ~game.paused) =>
             (game' = game /\ output_pipe' = <<>>)]_vars

\* an unpause repeated on a Game that was paused and resumed before
C12_Witness ==
    /\ call.op = "unpause"
    /\ ~game.paused
    /\ output_pipe = <<>>
    /\ last_notice = "resumed"

\* the team with the given id (ids are unique in the registry)
TeamById(teams, team_id) == teams[FirstIndex(teams, LAMBDA t : t.id = team_id)]

\* C13: adjust_score with a team id that matches no team returns NotFound,
\* changes no team's score or membership and emits no notification.
C13_AdjustScoreNotFound ==
    [][(call'.op = "adjust_score" /\ ~HasTeam(game.teams, call'.name))
          => (result' = "NotFound" /\ game' = game /\ output_pipe' = <<>>)]_vars

\* an adjust_score that found no team while another team, with a score and
\* a member, is registered
C13_Witness ==
    /\ call.op = "adjust_score"
    /\ result = "NotFound"
    /\ \E i \in 1..Len(game.teams) :
          game.teams[i].score # 0 /\ game.teams[i].players # {}

\* C14: a guess by a player on no team fails with NotOnTeam in every phase;
\* a guess by a player on a team outside the Quiz phase fails with
\* WrongPhase; in both cases no score changes and the phase is unchanged.
C14_GuessErrors ==
    [][call'.op = "guess" =>
          LET on_team == TeamOf(game, call'.player) # NoTeam
          IN /\ ~on_team =>
                   (result' = "NotOnTeam" /\ game' = game /\ output_pipe' = <<>>)
             /\ (on_team /\ ~InQuiz(game)) =>
                   (result' = "WrongPhase" /\ game' = game /\ output_pipe' = <<>>)]_vars

\* a guess refused with NotOnTeam while a question is open and another
\* player is on a team
C14_Witness ==
    /\ call.op = "guess"
    /\ result = "NotOnTeam"
    /\ InQuiz(game)
    /\ game.current_phase.quiz.current_step.tag = "Question"
    /\ game.teams # <<>>

\* C15 as stated: disband_team on a name matching an existing team removes
\* that team whatever its member count, its members have no team afterwards
\* and every other team is unchanged; on a name matching no team it returns
\* NotFound and changes nothing.
C15_DisbandAsStated ==
    [][call'.op = "disband_team" =>
          LET s == sanitize_name(call'.name)
          IN IF s.ok /\ HasTeam(game.teams, s.name)
             THEN LET team == TeamById(game.teams, s.name)
                  IN /\ result' = "Ok"
                     /\ ~HasTeam(game'.teams, s.name)
                     /\ \A p \in team.players : TeamOf(game', p) = NoTeam
                     /\ Range(game'.teams) = Range(game.teams) \ {team}
                     /\ Len(game'.teams) = Len(game.teams) - 1
                     /\ game'.current_phase = game.current_phase
                     /\ game'.paused = game.paused
             ELSE result' = "NotFound" /\ game' = game]_vars

\* C15 amended: as stated for the names that sanitize; a name that fails
\* sanitization returns InvalidName and changes nothing.
C15_Disband ==
    [][call'.op = "disband_team" =>
          LET s == sanitize_name(call'.name)
          IN IF ~s.ok
             THEN result' = "InvalidName" /\ game' = game
             ELSE IF HasTeam(game.teams, s.name)
             THEN LET team == TeamById(game.teams, s.name)
                  IN /\ result' = "Ok"
                     /\ ~HasTeam(game'.teams, s.name)
                     /\ \A p \in team.players : TeamOf(game', p) = NoTeam
                     /\ Range(game'.teams) = Range(game.teams) \ {team}
                     /\ Len(game'.teams) = Len(game.teams) - 1
                     /\ game'.current_phase = game.current_phase
                     /\ game'.paused = game.paused
             ELSE result' = "NotFound" /\ game' = game]_vars

\* a disband_team that removed a team with a member while another team,
\* with a member and a score, stays
C15_Witness ==
    /\ call.op = "disband_team"
    /\ result = "Ok"
    /\ \E p \in Players : TeamOf(game, p) = NoTeam
    /\ \E i \in 1..Len(game.teams) :
          game.teams[i].score # 0 /\ game.teams[i].players # {}

\* the step of the running quiz, "None" outside the Quiz phase
StepTag(g) == IF InQuiz(g) THEN g.current_phase.quiz.current_step.tag ELSE "None"

\* the questions that remain in the running quiz
Remaining(g) == g.current_phase.quiz.remaining_questions

\* C16: a tick takes the quiz from Cooldown to Question exactly when the dt
\* accumulated since the Cooldown began reaches the configured duration: a
\* tick that leaves the sum below it stays in Cooldown, a tick that reaches
\* it does not stay, exactly one notification is pushed at the transition and
\* none by a tick that makes no transition.
C16_CooldownEnds ==
    [][/\ (call'.op = "tick" /\ ~game.paused /\ StepTag(game) = "Cooldown") =>
             LET step == game.current_phase.quiz.current_step
                 sum == step.time_elapsed + call'.arg
             IN IF sum >= CooldownDuration
                THEN /\ StepTag(game') = "Question"
                     /\ Len(output_pipe') = 1
                ELSE /\ StepTag(game') = "Cooldown"
                     /\ game'.current_phase.quiz.current_step.time_elapsed = sum
                     /\ output_pipe' = <<>>
       /\ (call'.op = "tick" /\ StepTag(game) # "Cooldown") =>
             (StepTag(game') # "Question" \/ StepTag(game) = "Question")
                /\ output_pipe' = <<>>
       /\ StepTag(game') = "Cooldown" =>
             /\ game'.current_phase.quiz.current_step.time_to_wait = CooldownDuration
             /\ game'.current_phase.quiz.current_step.time_elapsed < CooldownDuration]_vars

\* a tick that ended the Cooldown and pushed its notification
C16_Witness ==
    /\ call.op = "tick"
    /\ call.arg > 0
    /\ StepTag(game) = "Question"
    /\ output_pipe = <<PayloadText("question")>>

\* C17: a tick that takes the quiz from Cooldown to Question pops exactly
\* one question off the queue when a question remains; a tick that does not
\* make that transition leaves the queue as it was.
C17_TransitionPops ==
    [][(call'.op = "tick" /\ InQuiz(game) /\ InQuiz(game')) =>
          IF StepTag(game) = "Cooldown" /\ StepTag(game') = "Question"
          THEN Remaining(game) # <<>> => Remaining(game') = Tail(Remaining(game))
          ELSE Remaining(game') = Remaining(game)]_vars

\* C18: in Setup, a join_team repeated right after it succeeded leaves the
\* team registry (the teams, their members, their scores) as the first call
\* left it, also when the player is the only member of the team.
C18_JoinIdempotent ==
    [][RepeatsJoin(call') =>
          /\ result' = "Ok"
          /\ Range(game'.teams) = Range(game.teams)
          /\ Len(game'.teams) = Len(game.teams)]_vars

\* a join_team repeated by the only member of a team, while another team
\* that has a score is registered
C18_Witness ==
    /\ join_repeated
    /\ result = "Ok"
    /\ TeamById(game.teams, TeamOf(game, call.player)).players = {call.player}
    /\ \E i \in 1..Len(game.teams) :
          game.teams[i].id # TeamOf(game, call.player) /\ game.teams[i].score # 0

\* C19: every successful adjust_score, reset_teams and reset_scores says
\* exactly one notification to all teams, the one of adjust_score carrying
\* the team's score after the delta was added; a command that returns an
\* error emits no notification.
C19_Notifications ==
    [][/\ (call'.op = "adjust_score" /\ result' = "Ok") =>
             /\ HasTeam(game.teams, call'.name)
             /\ TeamById(game'.teams, call'.name).score
                    = TeamById(game.teams, call'.name).score + call'.arg
             /\ output_pipe' = <<[kind |-> "score", team |-> call'.name,
                                  score |-> TeamById(game'.teams, call'.name).score,
                                  recipient |-> "AllTeams"]>>
       /\ call'.op \in {"reset_teams", "reset_scores"} =>
             /\ result' = "Ok"
             /\ Len(output_pipe') = 1
             /\ output_pipe'[1].recipient = "AllTeams"
             /\ output_pipe'[1].kind
                    = IF call'.op = "reset_teams" THEN "teams_reset" ELSE "scores_reset"
       /\ (/\ call'.op \in {"adjust_score", "disband_team", "join_team",
                             "begin", "skip", "guess"}
           /\ result' # "Ok") => output_pipe' = <<>>]_vars

\* an adjust_score that announced the score it gave a team that had none,
\* while another team is registered
C19_Witness ==
    /\ call.op = "adjust_score"
    /\ result = "Ok"
    /\ Len(output_pipe) = 1
    /\ output_pipe[1].score = call.arg
    /\ Len(game.teams) >= 2

\* the handlers that returned
Finished == {t \in Handlers : pc[t] = "done"}

\* the threads that hold the lock thread t is waiting for
WaitsFor(t) ==
    CASE t = Ticker /\ pc[t] = "iter" ->
            {mutex[games[g]] : g \in tick_todo} \ {NoThread}
      [] t # Ticker /\ pc[t] = "have" -> {mutex[handle[t]]} \ {NoThread}
      [] t # Ticker /\ pc[t] = "write_wait" -> map_readers
      [] t # Ticker /\ pc[t] = "lookup" -> {u \in Handlers : pc[u] = "write_wait"}
      [] t # Ticker /\ pc[t] = "adjust" -> TeamsHolders(handle[t])
      [] t # Ticker /\ pc[t] = "scored" -> SinkWriters(handle[t])
      [] t # Ticker /\ pc[t] = "update_channels" ->
            SinkReaders(handle[t]) \cup SinkWriters(handle[t])
      [] OTHER -> {}

\* some threads wait for locks that only threads among them, or threads
\* that returned, hold
Deadlocked ==
    \E S \in SUBSET Threads :
        /\ S # {}
        /\ \A t \in S : WaitsFor(t) \cap (S \cup Finished) # {}

\* C20: no interleaving of Pool::tick, Pool::get_game and the command
\* handlers reaches a deadlock: the pool map lock, the Game mutex, the teams
\* lock and the output sink lock are never waited on in a cycle, and every
\* tick and every command that started completes.
C20_NoDeadlock ==
    /\ []~Deadlocked
    /\ \A t \in Handlers : (pc[t] # "idle") ~> (pc[t] = "done")
    /\ (pc[Ticker] # "idle") ~> (pc[Ticker] = "idle")

\* a handler waits for the map's write lock, which the ticker holds for
\* reading while it waits for the mutex of the Game a second handler is
\* running adjust_score on, the teams lock held
C20_Witness ==
    /\ \E t \in Handlers : pc[t] = "write_wait"
    /\ Ticker \in map_readers
    /\ pc[Ticker] = "iter"
    /\ \E u \in Handlers :
          /\ pc[u] = "teams_held"
          /\ u \in WaitsFor(Ticker)

====
